---- MODULE Spec2Model ----
(***************************************************************************)
(* State-machine model of DistanceAwareGradualDomainEnsemble               *)
(* (src/adapter/dagde.py): the ensemble tables Z and z, the momentum       *)
(* scheduler, the quantile threshold alpha, the masked pseudo-label loss   *)
(* and the per-domain hyper-parameter sweep of adapt().                    *)
(*                                                                         *)
(* Numbers.  Tensors hold exact rationals here: a row of Z or z is a       *)
(* record [num, den] (integer numerators over one denominator), a scalar   *)
(* is [n, d].  Logits are whole multiples of ln 2, so that softmax is the  *)
(* exact rational 2^l / sum 2^l; beta * distance is a whole multiple of    *)
(* ln 2, so that exp(-beta * distance) is the exact rational 1 / 2^k.      *)
(* Floating-point rounding is not modelled.                                *)
(***************************************************************************)
EXTENDS Integers, Sequences, FiniteSets, TLC

(* ------------------------------ bounds --------------------------------- *)
NumDomains == 3
PerDomain == 3
BatchSize == 2
NumClasses == 2
NumModels == 2
MaxScore == 1
MaxBeta == 1
MaxDist == 1
MaxSweep == 2
QDen == 1
MaxUpdates == 4

(* --------------------------- exact arithmetic -------------------------- *)
RECURSIVE GCD(_, _)
GCD(a, b) == IF b = 0 THEN a ELSE GCD(b, a % b)

LCM(a, b) == (a \div GCD(a, b)) * b

RECURSIVE Pow2(_)
Pow2(k) == IF k = 0 THEN 1 ELSE 2 * Pow2(k - 1)

Abs(x) == IF x < 0 THEN 0 - x ELSE x

\* a scalar n/d in lowest terms
Rat(n, d) == IF n = 0 THEN [n |-> 0, d |-> 1]
             ELSE LET g == GCD(Abs(n), d) IN [n |-> n \div g, d |-> d \div g]

RLe(a, b) == LET L == LCM(a.d, b.d) IN a.n * (L \div a.d) <= b.n * (L \div b.d)

RAdd(a, b) == LET L == LCM(a.d, b.d) IN Rat(a.n * (L \div a.d) + b.n * (L \div b.d), L)

RSub(a, b) == LET L == LCM(a.d, b.d) IN Rat(a.n * (L \div a.d) - b.n * (L \div b.d), L)

RMul(a, b) == Rat(a.n * b.n, a.d * b.d)

Classes == 1 .. NumClasses

RECURSIVE SumTo(_, _)
SumTo(v, k) == IF k = 0 THEN 0 ELSE v[k] + SumTo(v, k - 1)

SumVec(v) == SumTo(v, Len(v))

RECURSIVE GcdTo(_, _)
GcdTo(v, k) == IF k = 0 THEN 0 ELSE GCD(v[k], GcdTo(v, k - 1))

\* a row num/den in lowest terms
Row(num, den) == LET g == GCD(GcdTo(num, Len(num)), den)
                 IN [num |-> [c \in DOMAIN num |-> num[c] \div g], den |-> den \div g]

ZeroRow == [num |-> [c \in Classes |-> 0], den |-> 1]

MaxOf(v) == CHOOSE x \in {v[c] : c \in DOMAIN v} : \A c \in DOMAIN v : v[c] <= x

MinOf(v) == CHOOSE x \in {v[c] : c \in DOMAIN v} : \A c \in DOMAIN v : x <= v[c]

\* torch.argmax(row): the first index holding the maximum
ArgMax(v) == CHOOSE c \in DOMAIN v : v[c] = MaxOf(v) /\ \A b \in DOMAIN v : v[b] = MaxOf(v) => c <= b

\* torch.amax(row) - torch.amin(row)
Confidence(row) == Rat(MaxOf(row.num) - MinOf(row.num), row.den)

(* ------------------------- data and collaborators ---------------------- *)
Domains == 0 .. NumDomains - 1

Ids == 0 .. NumDomains * PerDomain - 1

\* the global sample ids of domain d, in loader order
DomainIds(d) == [k \in 1 .. PerDomain |-> d * PerDomain + k - 1]

RECURSIVE Chunks(_)
Chunks(s) == IF Len(s) <= BatchSize THEN << s >>
             ELSE << SubSeq(s, 1, BatchSize) >> \o Chunks(SubSeq(s, BatchSize + 1, Len(s)))

\* trainloader_list[d]: the batches (of sample ids) of domain d
Loader(d) == Chunks(DomainIds(d))

\* the true label of a sample (read by the oracle evaluation only)
Label(id) == (id % NumClasses) + 1

Models == 0 .. NumModels - 1

\* model(data): the logit of class c for sample id, in units of ln 2
Logit(m, id, c) == ((m + 2) * id + c * (m + id + 1) + (id \div PerDomain)) % 3

ExpSum(m, id) == SumVec([c \in Classes |-> Pow2(Logit(m, id, c))])

\* F.softmax(model(img), dim=1) for one sample
Softmax(m, id) == Row([c \in Classes |-> Pow2(Logit(m, id, c))], ExpSum(m, id))

\* log2 in hundredths of a bit
Log2Centi(s) == CASE s = 1 -> 0 [] s = 2 -> 100 [] s = 3 -> 158 [] s = 4 -> 200
                  [] s = 5 -> 232 [] s = 6 -> 258 [] s = 7 -> 281 [] s = 8 -> 300
                  [] s = 9 -> 317 [] s = 10 -> 332 [] s = 11 -> 346 [] s = 12 -> 358
                  [] OTHER -> 358 + 8 * (s - 12)

\* F.nll_loss(F.log_softmax(logits), target, reduction='none') for one sample
Nll(m, id, c) == Log2Centi(ExpSum(m, id)) - 100 * Logit(m, id, c)

(* ------------------------------ ensemble ------------------------------- *)
\* self.momentum * self.Z[idx] + (1 - self.momentum) * probs, for one row
Mix(mom, Zr, pr) ==
    LET L == LCM(Zr.den, pr.den)
    IN Row([c \in Classes |-> mom.n * Zr.num[c] * (L \div Zr.den)
                              + (mom.d - mom.n) * pr.num[c] * (L \div pr.den)],
           mom.d * L)

\* the slip of dividing by the largest entry (the max norm) instead of the L1 norm
NormalizeByMax(r) == IF SumVec(r.num) = 0 THEN ZeroRow ELSE Row(r.num, MaxOf(r.num))

\* F.normalize(row, p=1): row / max(||row||_1, eps); an all-zero row stays zero
Normalize(r) == IF SumVec(r.num) = 0 THEN ZeroRow ELSE Row(r.num, SumVec(r.num))

InBatch(batch, id) == \E k \in DOMAIN batch : batch[k] = id

\* one iteration of the loop over a loader: Z[idx] = ...; z[idx] = normalize(Z[idx])
UpdateBatch(E, m, mom, batch) ==
    LET newZ == [id \in Ids |-> IF InBatch(batch, id)
                                THEN Mix(mom, E.Z[id], Softmax(m, id)) ELSE E.Z[id]]
    IN [Z |-> newZ,
        z |-> [id \in Ids |-> IF InBatch(batch, id) THEN Normalize(newZ[id]) ELSE E.z[id]],
        visited |-> E.visited]

RECURSIVE UpdateLoader(_, _, _, _, _)
UpdateLoader(E, m, mom, loader, k) ==
    IF k > Len(loader) THEN E
    ELSE UpdateLoader(UpdateBatch(E, m, mom, loader[k]), m, mom, loader, k + 1)

\* the slip of turning the comparison round: the domains after domain_idx are skipped
SkipLater(d, dIdx) == d > dIdx

\* if d < domain_idx: continue
SkipDomain(d, dIdx) == d < dIdx

RECURSIVE UpdateFrom(_, _, _, _, _)
UpdateFrom(E, m, mom, dIdx, d) ==
    IF d > NumDomains - 1 THEN E
    ELSE IF SkipDomain(d, dIdx) THEN UpdateFrom(E, m, mom, dIdx, d + 1)
    ELSE UpdateFrom(UpdateLoader([E EXCEPT !.visited = Append(@, d)], m, mom, Loader(d), 1),
                    m, mom, dIdx, d + 1)

\* _update_Z(domain_idx): the new Z and z, and the loaders visited, in order
UpdateZ(Zt, zt, m, mom, dIdx) == UpdateFrom([Z |-> Zt, z |-> zt, visited |-> << >>], m, mom, dIdx, 0)

(* ------------------------------ threshold ------------------------------ *)
RECURSIVE Flatten(_)
Flatten(loader) == IF loader = << >> THEN << >> ELSE Head(loader) \o Flatten(Tail(loader))

RECURSIVE Insert(_, _)
Insert(s, x) == IF s = << >> THEN << x >>
                ELSE IF RLe(x, Head(s)) THEN << x >> \o s
                ELSE << Head(s) >> \o Insert(Tail(s), x)

RECURSIVE SortAsc(_)
SortAsc(s) == IF s = << >> THEN << >> ELSE Insert(SortAsc(Tail(s)), Head(s))

\* the slip of ranking the values from the largest down
QuantileDescending(v, q) ==
    LET a == SortAsc(v)
        s == [k \in DOMAIN a |-> a[Len(a) + 1 - k]]
        r == q.n * (Len(v) - 1)
        lo == r \div q.d
        hi == IF r % q.d = 0 THEN lo ELSE lo + 1
    IN RAdd(s[lo + 1], RMul(Rat(r % q.d, q.d), RSub(s[hi + 1], s[lo + 1])))

\* torch.quantile(v, q), linear interpolation between the two nearest ranks
Quantile(v, q) ==
    LET s == SortAsc(v)
        r == q.n * (Len(v) - 1)
        lo == r \div q.d
        hi == IF r % q.d = 0 THEN lo ELSE lo + 1
    IN RAdd(s[lo + 1], RMul(Rat(r % q.d, q.d), RSub(s[hi + 1], s[lo + 1])))

\* _calc_alpha(loader, confidence_q): the quantile of the confidences of the loader's Z rows
CalcAlpha(Zt, loader, q) ==
    LET ids == Flatten(loader)
    IN Quantile([k \in DOMAIN ids |-> Confidence(Zt[ids[k]])], q)

(* ------------------------------ momentum ------------------------------- *)
\* _calc_momentum(domain_idx): exp(-beta * norm_dist_list[domain_idx - 1]);
\* the list is 0-based in the source and 1-based here
CalcMomentum(b, ndl, dIdx) == Rat(1, Pow2(b * ndl[dIdx]))

(* ------------------------------ training ------------------------------- *)
\* mask = confidence >= alpha, over the rows of z of one batch
Mask(zt, batch, alpha) == [k \in DOMAIN batch |-> RLe(alpha, Confidence(zt[batch[k]]))]

\* _pseudo_label_loss for one batch: the loss, the mask and the per-sample nll
PseudoLabelLoss(m, zt, batch, alpha) ==
    LET mask == Mask(zt, batch, alpha)
        nll == [k \in DOMAIN batch |-> Nll(m, batch[k], ArgMax(zt[batch[k]].num))]
    IN [loss |-> Rat(SumVec([k \in DOMAIN batch |-> IF mask[k] THEN nll[k] ELSE 0]), Len(batch)),
        mask |-> mask,
        nll |-> nll]

RECURSIVE RSum(_, _)
RSum(v, k) == IF k = 0 THEN Rat(0, 1) ELSE RAdd(v[k], RSum(v, k - 1))

MaskSum(mask) == Cardinality({k \in DOMAIN mask : mask[k]})

\* _adapt_train_epoch: the per-batch results, total_num and total_loss / total_num
AdaptTrainEpoch(m, zt, loader, alpha) ==
    LET res == [b \in DOMAIN loader |-> PseudoLabelLoss(m, zt, loader[b], alpha)]
        num == SumVec([b \in DOMAIN loader |-> MaskSum(res[b].mask)])
        tot == RSum([b \in DOMAIN loader |-> RMul(res[b].loss, Rat(MaskSum(res[b].mask), 1))],
                    Len(loader))
    IN [batches |-> res,
        total_num |-> num,
        total_loss |-> IF num = 0 THEN Rat(0, 1) ELSE RMul(tot, Rat(1, num))]

\* _oracle_eval_epoch: the share of samples whose pseudo-label argmax(z) is the true label
PlAcc(zt, loader) ==
    LET ids == Flatten(loader)
    IN Rat(Cardinality({k \in DOMAIN ids : ArgMax(zt[ids[k]].num) = Label(ids[k])}), Len(ids))

(* ------------------------------ selection ------------------------------ *)
\* -np.inf, below every score the validator returns
NegInf == 0 - 1

\* None
NoModel == 0 - 1

Scores == {NegInf} \cup (0 .. MaxScore)

\* performance_dict[confidence_q] = {...}: a new key goes last, a key already
\* present keeps its place and takes the new value
DictPut(pd, q, e) ==
    IF \E i \in DOMAIN pd : pd[i].q = q
    THEN [i \in DOMAIN pd |-> IF pd[i].q = q THEN e ELSE pd[i]]
    ELSE Append(pd, e)

\* the slip of comparing with >=, under which the last of equal scores wins
BetterOrEqual(score, best_score) == score >= best_score

\* if ckpt_dict["score"] > best_score
Better(score, best_score) == score > best_score

RECURSIVE SelectFrom(_, _, _)
SelectFrom(pd, i, best) ==
    IF i > Len(pd) THEN best
    ELSE SelectFrom(pd, i + 1,
                    IF Better(pd[i].score, best.score)
                    THEN [model |-> pd[i].model, score |-> pd[i].score]
                    ELSE best)

\* the selection loop of adapt: best_model and best_score after the loop
SelectBest(pd) == SelectFrom(pd, 1, [model |-> NoModel, score |-> NegInf])

(* -------------------------------- state -------------------------------- *)
VARIABLES
    model,                 \* self.model, a parameter snapshot
    Z,                     \* self.Z
    z,                     \* self.z
    beta,                  \* self.beta
    norm_dist_list,        \* self.norm_dist_list, in units of ln 2
    momentum,              \* self.momentum
    pl_acc_list,           \* self.pl_acc_list
    momentum_record_list,  \* self.momentum_record_list
    pc,                    \* where the driver is: "idle", "update", "train", "raised"
    domain_idx,            \* adapt's domain_idx (0 before the first call)
    confidence_q_list,     \* adapt's confidence_q_list
    qi,                    \* the position of the sweep loop in confidence_q_list
    performance_dict,      \* adapt's performance_dict, in insertion order
    err,                   \* the exception that ended the run, or "none"
    runs,                  \* what _adapt_train_eval returned, one entry per candidate
    seen,                  \* what each candidate trained on: Z, z, the momentum of its update, its base model
    visited,               \* the loaders the last _update_Z went through, in order
    epoch,                 \* the last training epoch: per-batch loss, mask and nll
    entry                  \* the adapter fields when the current adapt call began

vars == << model, Z, z, beta, norm_dist_list, momentum, pl_acc_list, momentum_record_list,
           pc, domain_idx, confidence_q_list, qi, performance_dict, err, runs, seen,
           visited, epoch, entry >>

Quantiles == {Rat(k, QDen) : k \in 0 .. QDen}

RECURSIVE SeqsUpTo(_, _)
SeqsUpTo(S, n) == IF n = 0 THEN {<< >>}
                  ELSE LET T == SeqsUpTo(S, n - 1)
                       IN T \cup {Append(t, x) : t \in {u \in T : Len(u) = n - 1}, x \in S}

\* the sweeps handed to adapt: non-empty lists of quantiles
Sweeps == SeqsUpTo(Quantiles, MaxSweep) \ {<< >>}

NoEpoch == [batches |-> << >>, total_num |-> 0, total_loss |-> Rat(0, 1)]

\* __init__, with Z and z all zero as the driver allocates them
Init ==
    /\ model = 0
    /\ Z = [id \in Ids |-> ZeroRow]
    /\ z = [id \in Ids |-> ZeroRow]
    /\ beta \in 0 .. MaxBeta
    /\ norm_dist_list \in [1 .. NumDomains - 1 -> 0 .. MaxDist]
    /\ momentum = Rat(0, 1)
    /\ pl_acc_list = << >>
    /\ momentum_record_list = << >>
    /\ pc = "idle"
    /\ domain_idx = 0
    /\ confidence_q_list = << >>
    /\ qi = 1
    /\ performance_dict = << >>
    /\ err = "none"
    /\ runs = << >>
    /\ seen = << >>
    /\ visited = << >>
    /\ epoch = NoEpoch
    /\ entry = [model |-> 0, momentum |-> Rat(0, 1), records |-> 0]

(* ------------------------------- actions ------------------------------- *)
\* the driver calls adapt(domain_idx, confidence_q_list, args) for the next domain
AdaptBegin(ql) ==
    /\ pc = "idle"
    /\ domain_idx < NumDomains - 1
    /\ domain_idx' = domain_idx + 1
    /\ confidence_q_list' = ql
    /\ qi' = 1
    /\ performance_dict' = << >>
    /\ runs' = << >>
    /\ seen' = << >>
    /\ epoch' = NoEpoch
    /\ entry' = [model |-> model, momentum |-> momentum, records |-> Len(pl_acc_list)]
    /\ pc' = "update"
    /\ UNCHANGED << model, Z, z, beta, norm_dist_list, momentum, pl_acc_list,
                    momentum_record_list, err, visited >>

\* _adapt_train_eval, its first statement: self._update_Z(domain_idx)
UpdateStep ==
    /\ pc = "update"
    /\ qi <= Len(confidence_q_list)
    /\ LET E == UpdateZ(Z, z, model, momentum, domain_idx)
       IN /\ Z' = E.Z
          /\ z' = E.z
          /\ visited' = E.visited
          /\ seen' = Append(seen, [Z |-> E.Z, z |-> E.z, momentum |-> momentum, base |-> model])
    /\ pc' = "train"
    /\ UNCHANGED << model, beta, norm_dist_list, momentum, pl_acc_list, momentum_record_list,
                    domain_idx, confidence_q_list, qi, performance_dict, err, runs, epoch, entry >>

\* the rest of _adapt_train_eval and the store into performance_dict: alpha, the
\* training of a copy of self.model (the optimizer's result m and the validator's
\* score s are the collaborators' choice), pl_acc, the new momentum
TrainStep(m, s) ==
    /\ pc = "train"
    /\ LET q == confidence_q_list[qi]
           loader == Loader(domain_idx)
           alpha == CalcAlpha(Z, loader, q)
           ep == AdaptTrainEpoch(m, z, loader, alpha)
           mom == CalcMomentum(beta, norm_dist_list, domain_idx)
       IN /\ epoch' = ep
          /\ IF ep.total_num = 0
             THEN /\ err' = "ZeroDivisionError"
                  /\ pc' = "raised"
                  /\ UNCHANGED << pl_acc_list, momentum, momentum_record_list,
                                  performance_dict, runs, qi >>
             ELSE /\ pl_acc_list' = Append(pl_acc_list, PlAcc(z, loader))
                  /\ momentum' = mom
                  /\ momentum_record_list' = Append(momentum_record_list, mom)
                  /\ performance_dict' = DictPut(performance_dict, q,
                                                 [q |-> q, model |-> m, score |-> s])
                  /\ runs' = Append(runs, [q |-> q, model |-> m, score |-> s])
                  /\ qi' = qi + 1
                  /\ pc' = "update"
                  /\ UNCHANGED err
    /\ UNCHANGED << model, Z, z, beta, norm_dist_list, domain_idx, confidence_q_list,
                    seen, visited, entry >>

\* adapt after the sweep loop: pick the best candidate, self.model = deepcopy(best_model).to(...)
SelectStep ==
    /\ pc = "update"
    /\ qi > Len(confidence_q_list)
    /\ LET best == SelectBest(performance_dict)
       IN IF best.model = NoModel
          THEN /\ err' = "AttributeError"
               /\ pc' = "raised"
               /\ UNCHANGED model
          ELSE /\ model' = best.model
               /\ pc' = "idle"
               /\ UNCHANGED err
    /\ UNCHANGED << Z, z, beta, norm_dist_list, momentum, pl_acc_list, momentum_record_list,
                    domain_idx, confidence_q_list, qi, performance_dict, runs, seen,
                    visited, epoch, entry >>

Next ==
    \/ \E ql \in Sweeps : AdaptBegin(ql)
    \/ UpdateStep
    \/ \E m \in Models, s \in Scores : TrainStep(m, s)
    \/ SelectStep

Spec == Init /\ [][Next]_vars

(* --------------------------- the sweep alone --------------------------- *)
(* adapt's bookkeeping with _adapt_train_eval reduced to what it returns:  *)
(* the sweep loop stores each candidate's model and score under its        *)
(* quantile, then the selection runs.  Nothing here reads beta or the      *)
(* distances, so they are fixed.                                           *)
(***************************************************************************)
InitSweep ==
    /\ Init
    /\ beta = 0
    /\ \A i \in DOMAIN norm_dist_list : norm_dist_list[i] = 0

\* one pass of the sweep loop: _adapt_train_eval returns (m, s), stored under the quantile
SweepRun(m, s) ==
    /\ pc = "update"
    /\ qi <= Len(confidence_q_list)
    /\ LET e == [q |-> confidence_q_list[qi], model |-> m, score |-> s]
       IN /\ performance_dict' = DictPut(performance_dict, e.q, e)
          /\ runs' = Append(runs, e)
    /\ qi' = qi + 1
    /\ UNCHANGED << model, Z, z, beta, norm_dist_list, momentum, pl_acc_list,
                    momentum_record_list, pc, domain_idx, confidence_q_list, err, seen,
                    visited, epoch, entry >>

NextSweep ==
    \/ \E ql \in Sweeps : AdaptBegin(ql)
    \/ \E m \in Models, s \in Scores : SweepRun(m, s)
    \/ SelectStep

SpecSweep == InitSweep /\ [][NextSweep]_vars

(* ----------------------- claims about the sweep ------------------------ *)
\* adapt has returned for domain_idx (and the next call has not begun)
AdaptReturned == pc = "idle" /\ domain_idx >= 1

\* adapt has run its whole sweep and its selection: it returned or the selection raised
SweepOver == pc \in {"idle", "raised"} /\ domain_idx >= 1 /\ qi > Len(confidence_q_list)

\* the run with the highest score, the earliest one among equals
FirstBest(rs) == CHOOSE i \in DOMAIN rs :
                    \A j \in DOMAIN rs : /\ rs[j].score <= rs[i].score
                                         /\ (j < i => rs[j].score < rs[i].score)

KeptRuns(rs) == {i \in DOMAIN rs : \A j \in DOMAIN rs : j > i => rs[j].q # rs[i].q}

\* where the quantile of run i first appears in the sweep
FirstSeen(rs, i) == CHOOSE k \in DOMAIN rs :
                       /\ rs[k].q = rs[i].q
                       /\ \A j \in DOMAIN rs : rs[j].q = rs[i].q => k <= j

C2_Original ==
    SweepOver => pc = "idle" /\ \E i \in DOMAIN runs : model = runs[i].model

(* ------------------------ claims about the loss ------------------------ *)
\* C3 as stated: a batch whose mask is entirely False makes the pseudo-label loss
\* raise an error instead of returning a loss value that training goes on with.
C3_Original ==
    \A b \in DOMAIN epoch.batches :
        MaskSum(epoch.batches[b].mask) = 0 => err # "none"

\* the sum of the nll of the masked-in samples of a batch
MaskedNll(r) == SumVec([k \in DOMAIN r.mask |-> IF r.mask[k] THEN r.nll[k] ELSE 0])

\* C4 as stated: the loss of a batch is the sum of the nll of its masked-in
\* samples divided by the number of masked-in samples.
C4_Original ==
    \A b \in DOMAIN epoch.batches :
        LET r == epoch.batches[b]
        IN MaskSum(r.mask) > 0 => r.loss = Rat(MaskedNll(r), MaskSum(r.mask))

(* ---------------- claims about the sweep and the ensemble -------------- *)
\* the quantiles of the sweep are pairwise distinct
DistinctSweep ==
    \A i \in DOMAIN confidence_q_list : \A j \in DOMAIN confidence_q_list :
        i # j => confidence_q_list[i] # confidence_q_list[j]

\* C5 as stated, for a sweep of distinct quantiles: within one adapt call every
\* candidate trains on the same base model and on the same Z and z as the first
\* candidate.
C5_Original ==
    DistinctSweep =>
        \A k \in DOMAIN seen :
            /\ seen[k].base = seen[1].base
            /\ seen[k].Z = seen[1].Z
            /\ seen[k].z = seen[1].z

\* C6 as stated, for a sweep of distinct quantiles: every ensemble update made
\* while adapt processes a domain uses the momentum the adapter had when that
\* adapt call began (0 at the first domain), and momentum is recomputed once
\* per domain.
C6_Original ==
    DistinctSweep =>
        /\ \A k \in DOMAIN seen : seen[k].momentum = entry.momentum
        /\ Len(momentum_record_list) - entry.records <= 1

\* C7 as stated, for sweeps of distinct quantiles: after adapt has returned for k
\* domains, pl_acc_list and momentum_record_list each hold k entries.
C7_Original ==
    (AdaptReturned /\ DistinctSweep) => /\ Len(pl_acc_list) = domain_idx
                                        /\ Len(momentum_record_list) = domain_idx

(* ------------------- the ensemble across the domains ------------------- *)
(* The adapter with the sweep's bookkeeping left out: the same calls of    *)
(* _update_Z and _calc_momentum in the same order, one pair per candidate, *)
(* and any trained model may be the one adapt keeps.  MaxUpdates caps the  *)
(* number of candidates run in all, which bounds the denominators.         *)
(***************************************************************************)
\* adapt is called for the next domain
EnsBegin ==
    /\ pc = "idle"
    /\ domain_idx < NumDomains - 1
    /\ domain_idx' = domain_idx + 1
    /\ qi' = 1
    /\ entry' = [model |-> model, momentum |-> momentum, records |-> Len(pl_acc_list)]
    /\ pc' = "update"
    /\ UNCHANGED << model, Z, z, beta, norm_dist_list, momentum, pl_acc_list,
                    momentum_record_list, confidence_q_list, performance_dict, err,
                    runs, seen, visited, epoch >>

\* self._update_Z(domain_idx) for the next candidate of the sweep
EnsUpdate ==
    /\ pc = "update"
    /\ qi <= MaxSweep
    /\ Len(momentum_record_list) < MaxUpdates
    /\ LET E == UpdateZ(Z, z, model, momentum, domain_idx)
       IN /\ Z' = E.Z
          /\ z' = E.z
          /\ visited' = E.visited
    /\ pc' = "train"
    /\ UNCHANGED << model, beta, norm_dist_list, momentum, pl_acc_list, momentum_record_list,
                    domain_idx, confidence_q_list, qi, performance_dict, err, runs, seen,
                    epoch, entry >>

\* the candidate is trained: pl_acc and the new momentum are recorded
EnsTrain ==
    /\ pc = "train"
    /\ LET mom == CalcMomentum(beta, norm_dist_list, domain_idx)
       IN /\ pl_acc_list' = Append(pl_acc_list, PlAcc(z, Loader(domain_idx)))
          /\ momentum' = mom
          /\ momentum_record_list' = Append(momentum_record_list, mom)
    /\ qi' = qi + 1
    /\ pc' = "update"
    /\ UNCHANGED << model, Z, z, beta, norm_dist_list, domain_idx, confidence_q_list,
                    performance_dict, err, runs, seen, visited, epoch, entry >>

\* the sweep ends and adapt keeps the model m of one of its candidates
EnsSelect(m) ==
    /\ pc = "update"
    /\ qi > 1
    /\ model' = m
    /\ pc' = "idle"
    /\ UNCHANGED << Z, z, beta, norm_dist_list, momentum, pl_acc_list, momentum_record_list,
                    domain_idx, confidence_q_list, qi, performance_dict, err, runs, seen,
                    visited, epoch, entry >>

NextEnsemble ==
    \/ EnsBegin
    \/ EnsUpdate
    \/ EnsTrain
    \/ \E m \in Models : EnsSelect(m)

SpecEnsemble == Init /\ [][NextEnsemble]_vars

(* ---------------------- claims about the ensemble ---------------------- *)
DomainOf(id) == id \div PerDomain

\* C8: after any sequence of ensemble updates, every sample whose Z row is not
\* all zero has z[id][c] = Z[id][c] / sum(Z[id]) for every class c, and z[id]
\* sums to 1 (the products are cancelled by g); and after the first update (momentum 0, Z all zero before it) z
\* is the model's softmax output for every sample the update touched.
C8_Normalized ==
    /\ \A id \in Ids :
          SumVec(Z[id].num) # 0 =>
              /\ LET g == GCD(SumVec(Z[id].num), z[id].den)
                 IN \A c \in Classes :
                       z[id].num[c] * (SumVec(Z[id].num) \div g)
                          = Z[id].num[c] * (z[id].den \div g)
              /\ SumVec(z[id].num) = z[id].den
    /\ (pc = "train" /\ momentum_record_list = << >>) =>
          \A id \in Ids : DomainOf(id) >= domain_idx => z[id] = Softmax(model, id)

\* C8's case: an update with a momentum strictly between 0 and 1 has mixed a
\* non-zero row with a different softmax output.
C8_Witness ==
    /\ pc = "train"
    /\ momentum.n # 0
    /\ momentum.d # 1
    /\ \E id \in Ids : /\ DomainOf(id) >= domain_idx
                       /\ SumVec(Z[id].num) # 0
                       /\ Z[id] # Softmax(model, id)
                       /\ Z[id] # Softmax(0, id)

\* what one call of _update_Z may change
UpdateFrame ==
    (pc = "update" /\ pc' = "train") =>
        /\ \A id \in Ids : DomainOf(id) < domain_idx => Z'[id] = Z[id] /\ z'[id] = z[id]
        /\ model' = model
        /\ visited' # << >>
        /\ \A k \in DOMAIN visited' :
              /\ visited'[k] >= domain_idx
              /\ k > 1 => visited'[k - 1] < visited'[k]

\* C9: the ensemble update for domain d0 changes Z and z only in rows of domains
\* d >= d0, goes through those domains in increasing order, leaves the rows of
\* the domains below d0 as they were and does not change the live model.
C9_Frame == [][UpdateFrame]_vars

\* C9's case: an update for a domain d0 >= 2 has run while a row of an earlier
\* domain held a non-zero value that the live model would have changed.
C9_Witness ==
    /\ pc = "train"
    /\ domain_idx >= 2
    /\ visited[1] = domain_idx
    /\ \E id \in Ids : /\ DomainOf(id) = domain_idx - 1
                       /\ SumVec(Z[id].num) # 0
                       /\ Z[id] # Mix(momentum, Z[id], Softmax(model, id))

\* the quantile levels the threshold is compared at: k / (4 * QDen), k = 0 .. 4 * QDen
LevelAt(k) == Rat(k, 4 * QDen)

\* alpha of domain d at level k in the current ensemble state
AlphaAt(d, k) == CalcAlpha(Z, Loader(d), LevelAt(k))

\* the number of samples of domain d the mask keeps under threshold alpha
Kept(d, alpha) ==
    SumVec([b \in DOMAIN Loader(d) |-> MaskSum(Mask(z, Loader(d)[b], alpha))])

\* along the levels, thresholds A[0], A[1], ... never fall and the kept count never rises
MonotoneOn(d, A) ==
    \A k \in 0 .. 4 * QDen - 1 :
        /\ RLe(A[k], A[k + 1])
        /\ Kept(d, A[k + 1]) <= Kept(d, A[k])

\* C10: for a fixed domain and ensemble state, alpha is non-decreasing in the
\* quantile level q and the number of samples the mask keeps is non-increasing
\* in q.  Checked in the state every update leaves, for each domain whose rows
\* the update wrote; the levels are a chain, so comparing each level with the
\* next one covers every pair.
C10_Monotone ==
    pc = "train" =>
        \A d \in Domains :
            d >= domain_idx => MonotoneOn(d, [k \in 0 .. 4 * QDen |-> AlphaAt(d, k)])

\* C10's case: after an update that mixed two models' outputs, the threshold of the
\* domain being adapted strictly rises from one level to the next, the higher
\* one interpolated between two ranks, and strictly fewer samples are kept.
C10_Witness ==
    /\ pc = "train"
    /\ \E id \in Ids : DomainOf(id) = domain_idx /\ Z[id] # Softmax(0, id)
    /\ \E k \in 0 .. 4 * QDen - 1 :
          /\ (k + 1) * (PerDomain - 1) % (4 * QDen) # 0
          /\ AlphaAt(domain_idx, k) # AlphaAt(domain_idx, k + 1)
          /\ Kept(domain_idx, AlphaAt(domain_idx, k + 1)) < Kept(domain_idx, AlphaAt(domain_idx, k))

====
